---- MODULE Spec2Model ----
(***************************************************************************)
(* AccountLogCleaner: the batch run of LogProcessor (app/processor.py)     *)
(* over the files of the input directory, with the per-file pipeline       *)
(*   detect_file_type -> load_text_files (read_csv + recovery pass)        *)
(*   -> make_data_clean -> enrich_data -> create_pickle -> insert_data     *)
(* of app/file_handler.py, app/data_processor.py and app/database.py.      *)
(*                                                                         *)
(* Text is a sequence of one-character strings.  A DataFrame is a record   *)
(* [cols, rows]: cols the sequence of column labels, rows a sequence of    *)
(* functions from the labels to values.  Integer column labels of pandas   *)
(* are the strings "0".."11" (IntLabel), canonical names are the other     *)
(* strings.  The missing value of pandas (NaN) is the one-element sequence *)
(* NaN, which no text equals.  pandas semantics are those of the 1.x/2.x   *)
(* line the code was written for (astype(str) renders NaN as 'nan').       *)
(* Field values of the sample lines hold no quote characters and no purely *)
(* numeric or NA-spelling fields, so read_csv's quoting, numeric type      *)
(* inference and NA-token list are not exercised.                          *)
(***************************************************************************)
EXTENDS Integers, Sequences, FiniteSets, TLC

TAB == "\t"
CR == "\r"
SP == " "
COLON == ":"
LBRACE == "{"

\* The missing value (float NaN) of a DataFrame cell.
NaN == <<"<NaN>">>

\* str(float('nan')), what Series.astype(str) makes of a missing value.
NanText == <<"n", "a", "n">>

Min(a, b) == IF a < b THEN a ELSE b

\* F applied to the value of e; e is evaluated once, however often F uses it
With(e, F(_)) == CHOOSE r \in {F(x) : x \in {e}} : TRUE

\* s[:n]
Take(s, n) == SubSeq(s, 1, Min(n, Len(s)))

\* s[n:] (0-based n)
Drop(s, n) == SubSeq(s, n + 1, Len(s))

Contains(s, c) == \E i \in 1..Len(s) : s[i] = c

\* index of the first occurrence of c in s at or after i (there is one)
RECURSIVE IndexFrom(_, _, _)
IndexFrom(s, c, i) == IF s[i] = c THEN i ELSE IndexFrom(s, c, i + 1)

\* index of the first occurrence of c in s (s contains c)
FirstIndex(s, c) == IndexFrom(s, c, 1)

IsSpace(c) == c \in {SP, TAB, CR, "\n"}

RECURSIVE LStrip(_)
LStrip(s) == IF s # <<>> /\ IsSpace(Head(s)) THEN LStrip(Tail(s)) ELSE s

RECURSIVE RStrip(_)
RStrip(s) == IF s # <<>> /\ IsSpace(s[Len(s)]) THEN RStrip(SubSeq(s, 1, Len(s) - 1)) ELSE s

\* str.strip()
Strip(s) == RStrip(LStrip(s))

\* str.split("\t"): k tabs give k+1 fields, the empty string gives one empty field
SplitTab(s) ==
    With({i \in 1..Len(s) : s[i] = TAB}, LAMBDA tabs :
      LET \* the position of the k-th tab; 0 before the first, Len(s)+1 after the last
          tab(k) == IF k = 0 THEN 0
                    ELSE IF k > Cardinality(tabs) THEN Len(s) + 1
                    ELSE CHOOSE p \in tabs : Cardinality({q \in tabs : q < p}) = k - 1
      IN [k \in 1..(Cardinality(tabs) + 1) |-> SubSeq(s, tab(k - 1) + 1, tab(k) - 1)])

\* concatenation of a sequence of texts
RECURSIVE Flatten(_)
Flatten(ss) == IF ss = <<>> THEN <<>> ELSE Head(ss) \o Flatten(Tail(ss))

\* str.replace("\t\r", ""): the text between the occurrences of the pair,
\* which cannot overlap
RemoveTabCR(s) ==
    With({i \in 1..(Len(s) - 1) : s[i] = TAB /\ s[i + 1] = CR}, LAMBDA pairs :
      LET \* the position of the k-th pair; -1 before the first, Len(s)+1 after the last
          pair(k) == IF k = 0 THEN -1
                     ELSE IF k > Cardinality(pairs) THEN Len(s) + 1
                     ELSE CHOOSE p \in pairs : Cardinality({q \in pairs : q < p}) = k - 1
      IN Flatten([k \in 1..(Cardinality(pairs) + 1) |->
                     SubSeq(s, pair(k - 1) + 2, pair(k) - 1)]))

\* "\t".join(fields)
RECURSIVE JoinTab(_)
JoinTab(fs) ==
    IF Len(fs) = 0 THEN <<>>
    ELSE IF Len(fs) = 1 THEN fs[1]
    ELSE fs[1] \o <<TAB>> \o JoinTab(Tail(fs))

\* n copies of the character c
RECURSIVE Rep(_, _)
Rep(c, n) == IF n = 0 THEN <<>> ELSE <<c>> \o Rep(c, n - 1)

SeqToSet(s) == {s[i] : i \in 1..Len(s)}

\* the subsequence of s of the elements whose (1-based) index is in keep
RECURSIVE SelectIdx(_, _)
SelectIdx(s, keep) ==
    IF s = <<>> THEN <<>>
    ELSE (IF 1 \in keep THEN <<Head(s)>> ELSE <<>>)
         \o SelectIdx(Tail(s), {i - 1 : i \in keep \ {1}})


(***************************************************************************)
(* File names: FileHandler.FILE_PATTERN and the two uses of it.            *)
(***************************************************************************)
VALIDATION_OK == <<"V", "a", "l", "i", "d", "a", "t", "i", "o", "n", "O", "k">>
VALIDATION_ERROR == <<"V", "a", "l", "i", "d", "a", "t", "i", "o", "n", "E", "r", "r", "o", "r">>
VALID_TYPES == {VALIDATION_OK, VALIDATION_ERROR}
DotTxt == <<".", "t", "x", "t">>
Digits == {"0", "1", "2", "3", "4", "5", "6", "7", "8", "9"}

HasPrefix(s, lit) == Len(s) >= Len(lit) /\ SubSeq(s, 1, Len(lit)) = lit

\* \d*\.txt matched at the head of s (greedy digits, then the literal ".txt")
RECURSIVE MatchDigitsTxt(_)
MatchDigitsTxt(s) ==
    IF s # <<>> /\ Head(s) \in Digits THEN MatchDigitsTxt(Tail(s)) ELSE HasPrefix(s, DotTxt)

\* FILE_PATTERN matched at the head of s: the set holding group 1 of the match
\* (empty when there is no match); the alternation tries ValidationError first
PatternGroupAt(s) ==
    IF HasPrefix(s, VALIDATION_ERROR) /\ MatchDigitsTxt(Drop(s, Len(VALIDATION_ERROR)))
    THEN {VALIDATION_ERROR}
    ELSE IF HasPrefix(s, VALIDATION_OK) /\ MatchDigitsTxt(Drop(s, Len(VALIDATION_OK)))
    THEN {VALIDATION_OK}
    ELSE {}

\* re.match(FILE_PATTERN, name): anchored at the start of the name only
ReMatch(name) == PatternGroupAt(name) # {}

\* a search that looks for the pattern at the head of the name only
ReFindFirst_anchored(name) ==
    IF PatternGroupAt(name) # {} THEN <<CHOOSE t \in PatternGroupAt(name) : TRUE>>
    ELSE <<>>

\* re.findall(FILE_PATTERN, name)[0:1]: group 1 of the leftmost match anywhere
\* in the name, as a sequence of at most one element
RECURSIVE ReFindFirst(_)
ReFindFirst(name) ==
    IF PatternGroupAt(name) # {} THEN <<CHOOSE t \in PatternGroupAt(name) : TRUE>>
    ELSE IF name = <<>> THEN <<>>
    ELSE ReFindFirst(Tail(name))

\* detect_file_type: [err, type]; err when nothing matches or the group is
\* not one of VALID_TYPES
detect_file_type(name) ==
    LET matches == ReFindFirst(name)
    IN IF matches = <<>> THEN [err |-> TRUE, type |-> <<>>]
       ELSE IF matches[1] \notin VALID_TYPES THEN [err |-> TRUE, type |-> <<>>]
       ELSE [err |-> FALSE, type |-> matches[1]]

NameError2 == VALIDATION_ERROR \o <<"2">> \o DotTxt
NameOk1 == VALIDATION_OK \o <<"1">> \o DotTxt
NameNotes == <<"n", "o", "t", "e", "s", ".", "t", "x", "t">>

\* names that hold the pattern without being a tag, digits and ".txt": no
\* digits; text after ".txt"; a second occurrence after the first; text
\* before the tag
NameOk0 == VALIDATION_OK \o DotTxt
NameOkBak == NameOk1 \o <<".", "b", "a", "k">>
NameOkThenError == NameOk1 \o <<"_">> \o NameError2
NamePrefixed == <<"x">> \o NameOk1

\* the names a directory listing may hold, in ascending order of Python's
\* string comparison ('E' < 'O' < 'n' < 'x', '.' < '1', '.' < '_')
NameUniverse ==
    <<NameError2, NameOk0, NameOk1, NameOkBak, NameOkThenError, NameNotes, NamePrefixed>>

\* sorted(files) of a set of names of the universe
SortedNames(S) == SelectSeq(NameUniverse, LAMBDA n : n \in S)


(***************************************************************************)
(* DataFrames.                                                             *)
(***************************************************************************)
IntLabels == <<"0", "1", "2", "3", "4", "5", "6", "7", "8", "9", "10", "11">>

\* the pandas integer column label i (0-based)
IntLabel(i) == IntLabels[i + 1]

IsIntLabel(l) == l \in SeqToSet(IntLabels)

\* the integer a label stands for
LabelInt(l) == (CHOOSE i \in 1..Len(IntLabels) : IntLabels[i] = l) - 1

\* pd.DataFrame(): no columns, no rows
EmptyDF == [cols |-> <<>>, rows |-> <<>>]

\* DataFrame.empty: some axis has length 0
IsEmptyDF(df) == Len(df.cols) = 0 \/ Len(df.rows) = 0

\* the row with the cells of the given labels only
Restrict(row, labels) == [l \in labels |-> row[l]]

\* physical line -> fields, as the csv reader of read_csv sees it: the
\* carriage return of a CRLF line end belongs to the terminator
ParseLine(line) ==
    SplitTab(IF line # <<>> /\ line[Len(line)] = CR
             THEN SubSeq(line, 1, Len(line) - 1) ELSE line)

\* skip_blank_lines: a row of one field that is empty or whitespace
IsBlankRow(f) == Len(f) = 1 /\ Strip(f[1]) = <<>>

\* DataFrame.dropna(axis=1, how="all")
DropAllNaNColumns(df) ==
    LET keep == {i \in 1..Len(df.cols) :
                    \E r \in 1..Len(df.rows) : df.rows[r][df.cols[i]] # NaN}
    IN With(SelectIdx(df.cols, keep), LAMBDA cols :
         With(SeqToSet(cols), LAMBDA labels :
           [cols |-> cols,
            rows |-> [r \in 1..Len(df.rows) |-> Restrict(df.rows[r], labels)]]))

\* pd.read_csv(delimiter="\t", header=None, on_bad_lines="skip",
\* engine="python"): [err, df].  No non-blank line: EmptyDataError.  The first
\* non-blank line fixes the number of columns; a line with more fields is
\* skipped, one with fewer is padded with NaN; an empty field is NaN.
read_csv(lines) ==
    With(SelectSeq([i \in 1..Len(lines) |-> ParseLine(lines[i])],
                   LAMBDA f : ~IsBlankRow(f)), LAMBDA recs :
      IF recs = <<>> THEN [err |-> TRUE, df |-> EmptyDF]
      ELSE LET ncols == Len(recs[1])
               cols == [i \in 1..ncols |-> IntLabel(i - 1)]
               cell(f, k) == IF k <= Len(f) /\ f[k] # <<>> THEN f[k] ELSE NaN
           IN With(SelectSeq(recs, LAMBDA f : Len(f) <= ncols), LAMBDA good :
                [err |-> FALSE,
                 df |-> [cols |-> cols,
                         rows |-> [r \in 1..Len(good) |->
                                     [l \in SeqToSet(cols) |->
                                         cell(good[r], LabelInt(l) + 1)]]]]))

ExpectedColsOk ==
    <<"BankName", "AccountNumber", "ShebaNumber", "NationalCode",
      "TransactionTime", "Status">>

ExpectedColsError ==
    <<"BankName", "AccountNumber", "ShebaNumber", "NationalCode",
      "TransactionTime", "ErrorCode", "Status">>

\* FileHandler._rename_columns: the integer LABEL i (not the i-th column) is
\* renamed to expected_cols[i], for i below the number of columns
rename_columns(df, file_type) ==
    LET expected == IF file_type = VALIDATION_OK THEN ExpectedColsOk ELSE ExpectedColsError
        n == Min(Len(expected), Len(df.cols))
        new(l) == IF IsIntLabel(l) /\ LabelInt(l) < n THEN expected[LabelInt(l) + 1] ELSE l
    IN With([i \in 1..Len(df.cols) |-> new(df.cols[i])], LAMBDA cols :
         With([i \in 1..Len(cols) |-> <<cols[i], df.cols[i]>>], LAMBDA pairs :
           LET old(l2) == (CHOOSE i \in 1..Len(pairs) : pairs[i][1] = l2)
           IN [cols |-> cols,
               rows |-> [r \in 1..Len(df.rows) |->
                           [l2 \in SeqToSet(cols) |-> df.rows[r][df.cols[old(l2)]]]]]))

\* pd.DataFrame(list of equal-length lists): integer labels 0..n-1, the cells
\* are the strings as they are (an empty string stays an empty string)
FrameOfLists(ls) ==
    IF ls = <<>> THEN EmptyDF
    ELSE LET cols == [i \in 1..Len(ls[1]) |-> IntLabel(i - 1)]
         IN [cols |-> cols,
             rows |-> [r \in 1..Len(ls) |->
                         [l \in SeqToSet(cols) |-> ls[r][LabelInt(l) + 1]]]]

\* a concat that puts the rows of b in the place of the rows of a
concat_replacing(a, b) == b

\* pd.concat([a, b], ignore_index=True): the columns of a, then those of b
\* that a lacks; the rows of a, then the rows of b; NaN where a frame has no
\* such column
concat(a, b) ==
    With(a.cols \o SelectSeq(b.cols, LAMBDA l : l \notin SeqToSet(a.cols)), LAMBDA cols :
      With(SeqToSet(cols), LAMBDA labels :
        LET widen(row) == [l \in labels |-> IF l \in DOMAIN row THEN row[l] ELSE NaN]
        IN [cols |-> cols,
            rows |-> [r \in 1..Len(a.rows) |-> widen(a.rows[r])]
                     \o [r \in 1..Len(b.rows) |-> widen(b.rows[r])]]))

(***************************************************************************)
(* The recovery pass and load_text_files.                                  *)
(***************************************************************************)
\* a match that begins at the first '{' of the line (the pattern "{.*")
FindDotStarBrace_from_brace(line) ==
    SubSeq(line, FirstIndex(line, LBRACE), Len(line))

\* re.findall(r".*{.*", line)[0] for a line holding a '{': the leftmost match
\* starts at the first position from which a '{' follows (the line holds no
\* newline before its end, and '.' matches the carriage return), and the
\* greedy tail runs to the end of the line
FindDotStarBrace(line) ==
    LET starts == {p \in 1..Len(line) : \E q \in p..Len(line) : line[q] = LBRACE}
        first == CHOOSE p \in starts : \A q \in starts : p <= q
    IN SubSeq(line, first, Len(line))

\* an arity rule that cuts a 10-field line after its field 6 instead of
\* joining the fields 6..9
CorrectLine_cut(line) ==
    IF Len(line) = 10 THEN <<SubSeq(line, 1, 7)>>
    ELSE IF Len(line) = 7 THEN <<line>>
    ELSE <<>>

\* the arity rule of the recovery pass on one split line: a sequence of at
\* most one corrected line
CorrectLine(line) ==
    IF Len(line) = 10
    THEN <<SubSeq(line, 1, 6) \o <<line[7] \o line[8] \o line[9] \o line[10]>>>>
    ELSE IF Len(line) = 7 THEN <<line>>
    ELSE <<>>

\* lines_corrected of _read_erroneous_lines
LinesCorrected(lines) ==
    With(SelectSeq(lines, LAMBDA l : Contains(l, LBRACE)), LAMBDA marked :
      LET json_lines(i) == RemoveTabCR(FindDotStarBrace(marked[i]))
          lines_split(i) == SplitTab(json_lines(i))
      IN Flatten([i \in 1..Len(marked) |-> CorrectLine(lines_split(i))]))

\* FileHandler._read_erroneous_lines: [df, warned]; readFails is the
\* environment making codecs.open or readlines raise
read_erroneous_lines(lines, readFails) ==
    IF readFails THEN [df |-> EmptyDF, warned |-> TRUE]
    ELSE IF \A i \in 1..Len(lines) : ~Contains(lines[i], LBRACE)
    THEN [df |-> EmptyDF, warned |-> FALSE]
    ELSE [df |-> rename_columns(FrameOfLists(LinesCorrected(lines)), VALIDATION_ERROR),
          warned |-> FALSE]

\* a load_text_files that lets the exception of the recovery pass through
load_text_files_recovery_raises(lines, file_type, unreadable, readFails) ==
    LET none == [err |-> TRUE, df |-> EmptyDF, primary |-> EmptyDF,
                 recovered |-> EmptyDF, warned |-> FALSE]
    IN IF unreadable \/ (file_type = VALIDATION_ERROR /\ readFails) THEN none
       ELSE With(read_csv(lines), LAMBDA csv :
         IF csv.err THEN none
         ELSE With(rename_columns(DropAllNaNColumns(csv.df), file_type), LAMBDA df :
                With(IF file_type = VALIDATION_ERROR
                     THEN read_erroneous_lines(lines, FALSE)
                     ELSE [df |-> EmptyDF, warned |-> FALSE], LAMBDA rec :
                  [err |-> FALSE,
                   df |-> IF ~IsEmptyDF(rec.df) THEN concat(df, rec.df) ELSE df,
                   primary |-> df,
                   recovered |-> rec.df,
                   warned |-> rec.warned])))

\* FileHandler.load_text_files: [err, df, primary, recovered, warned];
\* unreadable is the environment (file missing or not readable as UTF-8)
load_text_files(lines, file_type, unreadable, readFails) ==
    LET none == [err |-> TRUE, df |-> EmptyDF, primary |-> EmptyDF,
                 recovered |-> EmptyDF, warned |-> FALSE]
    IN IF unreadable THEN none
       ELSE With(read_csv(lines), LAMBDA csv :
         IF csv.err THEN none
         ELSE With(rename_columns(DropAllNaNColumns(csv.df), file_type), LAMBDA df :
                With(IF file_type = VALIDATION_ERROR
                     THEN read_erroneous_lines(lines, readFails)
                     ELSE [df |-> EmptyDF, warned |-> FALSE], LAMBDA rec :
                  [err |-> FALSE,
                   df |-> IF ~IsEmptyDF(rec.df) THEN concat(df, rec.df) ELSE df,
                   primary |-> df,
                   recovered |-> rec.df,
                   warned |-> rec.warned])))

(***************************************************************************)
(* DataProcessor.                                                          *)
(***************************************************************************)
CanonicalRaw == SeqToSet(ExpectedColsOk) \cup SeqToSet(ExpectedColsError)

\* Series.astype(str) on one cell
AsStr(v) == IF v = NaN THEN NanText ELSE v

\* a greedy prefix (the pattern "^.*:"): everything through the last colon goes
StripPrefix_greedy(v) ==
    IF Contains(v, COLON)
    THEN Drop(v, CHOOSE i \in 1..Len(v) : v[i] = COLON /\ \A j \in (i + 1)..Len(v) : v[j] # COLON)
    ELSE v

\* Series.str.replace(r"^.*?:", "", regex=True) on one cell: the shortest
\* prefix through the first colon goes
StripPrefix(v) == IF Contains(v, COLON) THEN Drop(v, FirstIndex(v, COLON)) ELSE v

\* the cell pipeline of make_data_clean
CleanCell(v) == Strip(StripPrefix(AsStr(v)))

\* DataFrame.dropna(how="all"): the rows whose every cell is NaN go
DropAllNaNRows(df) ==
    [cols |-> df.cols,
     rows |-> SelectSeq(df.rows, LAMBDA row : ~(\A l \in DOMAIN row : row[l] = NaN))]

\* DataFrame.fillna("")
FillNa(df) ==
    [cols |-> df.cols,
     rows |-> [r \in 1..Len(df.rows) |->
                 [l \in DOMAIN df.rows[r] |->
                     IF df.rows[r][l] = NaN THEN <<>> ELSE df.rows[r][l]]]]

\* DataProcessor.make_data_clean
make_data_clean(data) ==
    LET stripped ==
            [cols |-> data.cols,
             rows |-> [r \in 1..Len(data.rows) |->
                         [l \in DOMAIN data.rows[r] |->
                             IF l \in CanonicalRaw THEN CleanCell(data.rows[r][l])
                             ELSE data.rows[r][l]]]]
    IN FillNa(DropAllNaNRows(stripped))

ColumnOrderOk ==
    <<"BankName", "AccountNumber", "ShebaNumber", "NationalCode",
      "Date", "TransactionTime", "Status", "FileName", "Type", "ProcessedAt">>

ColumnOrderError ==
    <<"BankName", "AccountNumber", "ShebaNumber", "NationalCode",
      "Date", "TransactionTime", "ErrorCode", "Status",
      "FileName", "Type", "ProcessedAt">>

\* a Date that is the first 8 characters of the TransactionTime
DateOf_short(tt) == IF tt = NaN THEN NaN ELSE Take(tt, 8)

\* data["TransactionTime"].str[:10] on one cell
DateOf(tt) == IF tt = NaN THEN NaN ELSE Take(tt, 10)

\* an enrich_data that puts the columns of the canonical order first and
\* keeps the other columns after them
enrich_data_keep_all(data, filename, file_type, now) ==
    LET added(row) ==
            [l \in DOMAIN row \cup {"Date", "FileName", "Type", "ProcessedAt"} |->
                IF l = "Date"
                THEN (IF "TransactionTime" \in SeqToSet(data.cols)
                      THEN DateOf(row["TransactionTime"]) ELSE <<>>)
                ELSE IF l = "FileName" THEN filename
                ELSE IF l = "Type" THEN file_type
                ELSE IF l = "ProcessedAt" THEN now
                ELSE row[l]]
        have == SeqToSet(data.cols) \cup {"Date", "FileName", "Type", "ProcessedAt"}
        order == IF file_type = VALIDATION_OK THEN ColumnOrderOk ELSE ColumnOrderError
    IN With(SelectSeq(order, LAMBDA c : c \in have)
              \o SelectSeq(data.cols, LAMBDA c : c \notin SeqToSet(order)), LAMBDA column_order :
         [cols |-> column_order,
          rows |-> [r \in 1..Len(data.rows) |-> added(data.rows[r])]])

\* an enrich_data that adds Date only when the frame has a TransactionTime
\* column
enrich_data_no_default_date(data, filename, file_type, now) ==
    LET hasTime == "TransactionTime" \in SeqToSet(data.cols)
        extra == (IF hasTime THEN {"Date"} ELSE {}) \cup {"FileName", "Type", "ProcessedAt"}
        added(row) ==
            [l \in DOMAIN row \cup extra |->
                IF l = "Date" THEN DateOf(row["TransactionTime"])
                ELSE IF l = "FileName" THEN filename
                ELSE IF l = "Type" THEN file_type
                ELSE IF l = "ProcessedAt" THEN now
                ELSE row[l]]
        have == SeqToSet(data.cols) \cup extra
        order == IF file_type = VALIDATION_OK THEN ColumnOrderOk ELSE ColumnOrderError
        column_order == SelectSeq(order, LAMBDA c : c \in have)
    IN [cols |-> column_order,
        rows |-> [r \in 1..Len(data.rows) |->
                    Restrict(added(data.rows[r]), SeqToSet(column_order))]]

\* DataProcessor.enrich_data
enrich_data(data, filename, file_type, now) ==
    LET added(row) ==
            [l \in DOMAIN row \cup {"Date", "FileName", "Type", "ProcessedAt"} |->
                IF l = "Date"
                THEN (IF "TransactionTime" \in SeqToSet(data.cols)
                      THEN DateOf(row["TransactionTime"]) ELSE <<>>)
                ELSE IF l = "FileName" THEN filename
                ELSE IF l = "Type" THEN file_type
                ELSE IF l = "ProcessedAt" THEN now
                ELSE row[l]]
        have == SeqToSet(data.cols) \cup {"Date", "FileName", "Type", "ProcessedAt"}
        order == IF file_type = VALIDATION_OK THEN ColumnOrderOk ELSE ColumnOrderError
    IN With(SelectSeq(order, LAMBDA c : c \in have), LAMBDA column_order :
         With(SeqToSet(column_order), LAMBDA labels :
           [cols |-> column_order,
            rows |-> [r \in 1..Len(data.rows) |->
                        With(added(data.rows[r]), LAMBDA row : Restrict(row, labels))]]))

\* column_limits of fix_column_size (and the lengths of get_database_types)
column_limits ==
    [BankName |-> 100, AccountNumber |-> 50, ShebaNumber |-> 50, NationalCode |-> 30,
     Date |-> 10, TransactionTime |-> 21, Status |-> 1000, FileName |-> 256,
     Type |-> 20, ErrorCode |-> 10, ProcessedAt |-> 30]

\* a fix_column_size that keeps one character more than the limit
fix_column_size_one_more(data) ==
    [cols |-> data.cols,
     rows |-> [r \in 1..Len(data.rows) |->
                 [l \in DOMAIN data.rows[r] |->
                     IF l \in DOMAIN column_limits
                     THEN Take(AsStr(data.rows[r][l]), column_limits[l] + 1)
                     ELSE data.rows[r][l]]]]

\* DataProcessor.fix_column_size
fix_column_size(data) ==
    [cols |-> data.cols,
     rows |-> [r \in 1..Len(data.rows) |->
                 [l \in DOMAIN data.rows[r] |->
                     IF l \in DOMAIN column_limits
                     THEN Take(AsStr(data.rows[r][l]), column_limits[l])
                     ELSE data.rows[r][l]]]]


(***************************************************************************)
(* Sample file contents.  A file is a sequence of physical lines; a line   *)
(* is its text without the "\n", a CRLF line keeps its "\r".               *)
(***************************************************************************)
FBank == <<"B", ":", " ", "M">>
FAcc == <<"A", ":", "1">>
\* a value without a label, with a leading blank
FPlain == <<" ", "7">>
FSheba == <<"S", ":", "I">>
FNat == <<"N", ":", "0">>
FTime == <<"T", ":", "2", "0", "2", "3", "-", "0", "1", "-", "1", "0", "T", "1">>
FTimeLong == <<"T", ":", "2", "0", "2", "3", "-", "0", "1", "-", "1", "0", "T", "1", "0", ":", "0", "0", ":", "0", "0", ".", "1", "2">>
FCode == <<"E", ":", "4">>
FCodeLong == <<"E", ":">> \o Rep("9", 11)
FStatus == <<"S", "t", ":", "O", "K">>
FStatusJson == <<"S", "t", ":", "{", "c", "}">>
FJson1 == <<"{", "c", ":", "1">>
FJson2 == <<"m", ":", "x">>
FJson3 == <<"}">>

\* a well-formed ValidationOk line, 6 fields
LineOk6 == JoinTab(<<FBank, FAcc, FSheba, FNat, FTime, FStatus>>)
\* a well-formed ValidationError line with a JSON status, 7 fields, of a CRLF
\* file with the trailing tab of the source system; its TransactionTime and
\* ErrorCode are longer than the column limits
LineErr7Json ==
    JoinTab(<<FBank, FAcc, FSheba, FNat, FTimeLong, FCodeLong, FStatusJson>>) \o <<TAB, CR>>
\* a ValidationError line whose JSON status was split into 4 fragments, the
\* last one empty: 10 fields
LineErr10 == JoinTab(<<FBank, FAcc, FSheba, FNat, FTime, FCode, FJson1, FJson2, FJson3, <<>>>>)
\* 6 empty fields
LineEmpty6 == JoinTab(<<<<>>, <<>>, <<>>, <<>>, <<>>, <<>>>>)
\* 6 fields that are labels only
LineLabels6 == JoinTab(<<<<"B", ":">>, <<"A", ":">>, <<"S", ":">>, <<"N", ":">>, <<"T", ":">>, <<"S", "t", ":">>>>)
\* 3 fields, the second one without a label and the last one holding '{': a
\* short line, and for the recovery pass a line of an arity it does not know
LineShort3 == JoinTab(<<FBank, FPlain, FStatusJson>>)

\* a well-formed line of 6 fields whose ShebaNumber is empty
LineNoSheba6 == JoinTab(<<FBank, FAcc, <<>>, FNat, FTime, FStatus>>)

SampleLines ==
    {LineOk6, LineErr7Json, LineErr10, LineEmpty6, LineLabels6, LineShort3, LineNoSheba6}

\* the most lines the files of the input directory hold, all together
MaxLines == 2

RECURSIVE SeqsUpTo(_, _)
SeqsUpTo(S, n) ==
    IF n = 0 THEN {<<>>}
    ELSE LET shorter == SeqsUpTo(S, n - 1)
         IN shorter \cup {Append(q, x) : q \in {t \in shorter : Len(t) = n - 1}, x \in S}

Contents == SeqsUpTo(SampleLines, MaxLines)

\* datetime.now().isoformat() of the run
Now == <<"2", "0", "2", "3", "-", "0", "2", "-", "0", "1", "T", "0", "9", ":", "3", "0", ":", "0", "1", ".", "1", "2", "3", "4", "5", "6">>

(***************************************************************************)
(* LogProcessor.                                                           *)
(***************************************************************************)
VARIABLES
    config,             \* ENABLE_PICKLE, ENABLE_DB_INSERT, DRY_RUN
    engine,             \* DatabaseManager.engine is set
    inputExists,        \* LOGS_INPUT_PATH exists
    inputDir,           \* the files of LOGS_INPUT_PATH: name -> lines
    archive,            \* the files of the archive subdirectory: name -> lines
    archiveMade,        \* move_logs was called (it makes the archive subdirectory)
    files,              \* run's list of selected files
    pc,                 \* where run is: start, loop, archive, done, raised
    idx,                \* index in files of the next file of the loop
    processed_files,
    processed_records,
    failed_files,
    cur,                \* what the last call of _process_file did
    calls,              \* the calls of _process_file so far: name, outcome, count
    runlog,             \* run's own log messages
    detected            \* the last call of detect_file_type from outside run

vars ==
    <<config, engine, inputExists, inputDir, archive, archiveMade, files, pc, idx,
      processed_files, processed_records, failed_files, cur, calls, runlog,
      detected>>

\* where the environment may make a step of _process_file raise ("recovery":
\* inside _read_erroneous_lines, which swallows it): the fail points of the
\* steps that _process_file can come to for a file of this name under this
\* configuration
FailPointsOf(name, cfg) ==
    {"none", "load", "clean", "enrich"}
    \cup (IF detect_file_type(name).type = VALIDATION_ERROR THEN {"recovery"} ELSE {})
    \cup (IF cfg.ENABLE_PICKLE THEN {"pickle"} ELSE {})
    \cup (IF cfg.ENABLE_DB_INSERT /\ ~cfg.DRY_RUN THEN {"insert"} ELSE {})

Msg(level, text, n) == [level |-> level, text |-> text, n |-> n]

\* a call of a sink with the batch it was handed, and whether it returned
SinkCall(sink, data, ok) == [sink |-> sink, data |-> data, ok |-> ok]

NoCall ==
    [name |-> <<>>, lines |-> <<>>, type |-> <<>>, primary |-> EmptyDF,
     recovered |-> EmptyDF, loaded |-> EmptyDF, cleaned |-> EmptyDF,
     enriched |-> EmptyDF, sinks |-> <<>>, log |-> <<>>, outcome |-> "none",
     failedAt |-> "none", fault |-> "none", count |-> 0]

\* an insert_data that hands the batch to to_sql as it got it, without
\* fix_column_size
insert_data_unfixed(data, hasEngine, dbFails) ==
    IF ~hasEngine THEN [raised |-> TRUE, calls |-> <<>>]
    ELSE [raised |-> dbFails, calls |-> <<SinkCall("to_sql", data, ~dbFails)>>]

\* DatabaseManager.insert_data: the sink calls it makes and whether it raises
insert_data(data, hasEngine, dbFails) ==
    IF ~hasEngine THEN [raised |-> TRUE, calls |-> <<>>]
    ELSE [raised |-> dbFails,
          calls |-> <<SinkCall("to_sql", fix_column_size(data), ~dbFails)>>]

\* DataProcessor.create_pickle
create_pickle(data, ioFails) ==
    [raised |-> ioFails, calls |-> <<SinkCall("pickle", data, ~ioFails)>>]

\* sink steps that insert first and write the pickle afterwards
SinkSteps_insert_first(data, cfg, hasEngine, fail) ==
    LET n == Len(data.rows)
        doInsert == cfg.ENABLE_DB_INSERT /\ ~cfg.DRY_RUN
        ins == IF doInsert THEN insert_data(data, hasEngine, fail = "insert")
               ELSE [raised |-> FALSE, calls |-> <<>>]
        pk == IF cfg.ENABLE_PICKLE THEN create_pickle(data, fail = "pickle")
              ELSE [raised |-> FALSE, calls |-> <<>>]
    IN IF ins.raised THEN [raised |-> "insert", calls |-> ins.calls, log |-> <<>>]
       ELSE IF pk.raised
       THEN [raised |-> "pickle", calls |-> ins.calls \o pk.calls, log |-> <<>>]
       ELSE [raised |-> "none", calls |-> ins.calls \o pk.calls,
             log |-> IF doInsert THEN <<Msg("info", "inserted", n)>>
                     ELSE IF cfg.DRY_RUN THEN <<Msg("info", "dry_run_would_insert", n)>>
                     ELSE <<>>]

\* sink steps whose insert branch does not look at DRY_RUN
SinkSteps_insert_in_dry_run(data, cfg, hasEngine, fail) ==
    LET pk == IF cfg.ENABLE_PICKLE THEN create_pickle(data, fail = "pickle")
              ELSE [raised |-> FALSE, calls |-> <<>>]
        n == Len(data.rows)
    IN IF pk.raised THEN [raised |-> "pickle", calls |-> pk.calls, log |-> <<>>]
       ELSE IF cfg.ENABLE_DB_INSERT
       THEN LET ins == insert_data(data, hasEngine, fail = "insert")
            IN IF ins.raised
               THEN [raised |-> "insert", calls |-> pk.calls \o ins.calls, log |-> <<>>]
               ELSE [raised |-> "none", calls |-> pk.calls \o ins.calls,
                     log |-> <<Msg("info", "inserted", n)>>]
       ELSE IF cfg.DRY_RUN
       THEN [raised |-> "none", calls |-> pk.calls,
             log |-> <<Msg("info", "dry_run_would_insert", n)>>]
       ELSE [raised |-> "none", calls |-> pk.calls, log |-> <<>>]

\* the two sink steps of _process_file (lines 135-145): the calls made, the
\* messages logged and the step that raised
SinkSteps(data, cfg, hasEngine, fail) ==
    LET pk == IF cfg.ENABLE_PICKLE THEN create_pickle(data, fail = "pickle")
              ELSE [raised |-> FALSE, calls |-> <<>>]
        n == Len(data.rows)
    IN IF pk.raised THEN [raised |-> "pickle", calls |-> pk.calls, log |-> <<>>]
       ELSE IF cfg.ENABLE_DB_INSERT /\ ~cfg.DRY_RUN
       THEN LET ins == insert_data(data, hasEngine, fail = "insert")
            IN IF ins.raised
               THEN [raised |-> "insert", calls |-> pk.calls \o ins.calls, log |-> <<>>]
               ELSE [raised |-> "none", calls |-> pk.calls \o ins.calls,
                     log |-> <<Msg("info", "inserted", n)>>]
       ELSE IF cfg.DRY_RUN
       THEN [raised |-> "none", calls |-> pk.calls,
             log |-> <<Msg("info", "dry_run_would_insert", n)>>]
       ELSE [raised |-> "none", calls |-> pk.calls, log |-> <<>>]

\* LogProcessor._process_file on the file `name` holding `lines`: the record
\* of what the call did.  outcome is "ok" (it reached the counters), "skipped"
\* (empty after loading) or "failed" (it raised, at failedAt)
process_file(name, lines, cfg, hasEngine, fail) ==
    LET base == [NoCall EXCEPT !.name = name, !.lines = lines, !.outcome = "failed",
                               !.fault = fail]
    IN With(detect_file_type(name), LAMBDA det :
       IF det.err THEN [base EXCEPT !.failedAt = "detect"]
       ELSE With(load_text_files(lines, det.type, fail = "load", fail = "recovery"), LAMBDA ld :
       LET warn == IF ld.warned
                   THEN <<Msg("warning", "error_reading_erroneous_lines", 0)>> ELSE <<>>
           loaded == [base EXCEPT !.type = det.type, !.primary = ld.primary,
                                  !.recovered = ld.recovered, !.loaded = ld.df,
                                  !.log = warn]
       IN
       IF ld.err THEN [base EXCEPT !.type = det.type, !.failedAt = "load"]
       ELSE IF IsEmptyDF(ld.df)
       THEN [loaded EXCEPT !.outcome = "skipped",
                           !.log = warn \o <<Msg("warning", "empty_skipping", 0)>>]
       ELSE IF fail = "clean" THEN [loaded EXCEPT !.failedAt = "clean"]
       ELSE With(make_data_clean(ld.df), LAMBDA cl :
       IF fail = "enrich" THEN [loaded EXCEPT !.cleaned = cl, !.failedAt = "enrich"]
       ELSE With(enrich_data(cl, name, det.type, Now), LAMBDA en :
            With(SinkSteps(en, cfg, hasEngine, fail), LAMBDA sk :
       IF sk.raised # "none"
       THEN [loaded EXCEPT !.cleaned = cl, !.enriched = en, !.sinks = sk.calls,
                           !.failedAt = sk.raised]
       ELSE [loaded EXCEPT !.cleaned = cl, !.enriched = en, !.sinks = sk.calls,
                           !.log = warn \o sk.log
                                   \o <<Msg("info", "processed_successfully", Len(en.rows))>>,
                           !.outcome = "ok", !.count = Len(en.rows)])))))

\* no call of detect_file_type yet
NoDetect == [name |-> <<>>, err |-> FALSE, type |-> <<>>]

\* the number of lines of the files of a directory
RECURSIVE TotalLines(_)
TotalLines(dir) ==
    IF DOMAIN dir = {} THEN 0
    ELSE LET n == CHOOSE x \in DOMAIN dir : TRUE
         IN Len(dir[n]) + TotalLines([m \in DOMAIN dir \ {n} |-> dir[m]])

\* The state after LogProcessor.__init__.  The directory holds notes.txt and
\* any of the two log files, which hold any sample lines, MaxLines lines at
\* most together.  The engine is there exactly when ENABLE_DB_INSERT
\* is set (DatabaseManager.__init__ connects then, also in a dry run).
Init ==
    /\ config \in [ENABLE_PICKLE : BOOLEAN, ENABLE_DB_INSERT : BOOLEAN, DRY_RUN : BOOLEAN]
    /\ engine = config.ENABLE_DB_INSERT
    /\ inputExists \in BOOLEAN
    /\ \E names \in SUBSET {NameError2, NameOk1} :
          \E logs \in [names -> Contents] :
             /\ TotalLines(logs) <= MaxLines
             /\ inputDir = IF inputExists
                           THEN [n \in names \cup {NameNotes} |->
                                    IF n = NameNotes THEN <<LineOk6>> ELSE logs[n]]
                           ELSE <<>>
    /\ archive = <<>>
    /\ archiveMade = FALSE
    /\ files = <<>>
    /\ pc = "start"
    /\ idx = 1
    /\ processed_files = 0
    /\ processed_records = 0
    /\ failed_files = <<>>
    /\ cur = NoCall
    /\ calls = <<>>
    /\ runlog = <<>>
    /\ detected = NoDetect

\* FileHandler.extract_wanted_files
extract_wanted_files(exists, dir) ==
    IF ~exists THEN [err |-> TRUE, files |-> <<>>]
    ELSE [err |-> FALSE, files |-> SortedNames({n \in DOMAIN dir : ReMatch(n)})]

\* run, lines 69-78: extract the files; raise when that fails, return when
\* there are none
RunExtract ==
    /\ pc = "start"
    /\ LET ex == extract_wanted_files(inputExists, inputDir)
       IN /\ files' = ex.files
          /\ pc' = IF ex.err THEN "raised" ELSE IF ex.files = <<>> THEN "done" ELSE "loop"
          /\ runlog' = IF ex.err THEN <<"fatal">>
                       ELSE IF ex.files = <<>> THEN <<"found", "no_files">>
                       ELSE <<"found">>
    /\ UNCHANGED <<config, engine, inputExists, inputDir, archive, archiveMade, idx,
                   processed_files, processed_records, failed_files, cur, calls,
                   detected>>

\* a turn of the loop that stops the run on a failed file (the except clause
\* re-raising)
loop_next_reraise(outcome, i, n) ==
    IF outcome = "failed" THEN "raised" ELSE IF i = n THEN "archive" ELSE "loop"

\* where run goes after the turn of the loop for file i of n: the except
\* clause logs, records the file and continues, whatever the outcome
loop_next(outcome, i, n) == IF i = n THEN "archive" ELSE "loop"

\* a turn of the loop that counts every file that was not skipped as
\* processed, also the one it records as failed
RunProcessFile_counts_failed ==
    /\ pc = "loop"
    /\ idx <= Len(files)
    /\ \E fail \in FailPointsOf(files[idx], config) :
          \E call \in {process_file(files[idx], inputDir[files[idx]], config, engine, fail)} :
             /\ cur' = call
             /\ processed_files' = processed_files + (IF call.outcome # "skipped" THEN 1 ELSE 0)
             /\ processed_records' = processed_records + call.count
             /\ failed_files' = IF call.outcome = "failed"
                                THEN Append(failed_files, files[idx]) ELSE failed_files
             /\ calls' = Append(calls, [name |-> files[idx], outcome |-> call.outcome,
                                        count |-> call.count])
             /\ pc' = loop_next(call.outcome, idx, Len(files))
    /\ idx' = idx + 1
    /\ UNCHANGED <<config, engine, inputExists, inputDir, archive, archiveMade, files, runlog,
                   detected>>

\* run, lines 81-87: one turn of the loop, _process_file and its except clause
RunProcessFile ==
    /\ pc = "loop"
    /\ idx <= Len(files)
    /\ \E fail \in FailPointsOf(files[idx], config) :
          \E call \in {process_file(files[idx], inputDir[files[idx]], config, engine, fail)} :
             /\ cur' = call
             /\ processed_files' = processed_files + (IF call.outcome = "ok" THEN 1 ELSE 0)
             /\ processed_records' = processed_records + call.count
             /\ failed_files' = IF call.outcome = "failed"
                                THEN Append(failed_files, files[idx]) ELSE failed_files
             /\ calls' = Append(calls, [name |-> files[idx], outcome |-> call.outcome,
                                        count |-> call.count])
             /\ pc' = loop_next(call.outcome, idx, Len(files))
    /\ idx' = idx + 1
    /\ UNCHANGED <<config, engine, inputExists, inputDir, archive, archiveMade, files, runlog,
                   detected>>

\* FileHandler.move_logs: [err, dir, archive]; the listed files that exist
\* move to the archive subdirectory as they are, in order.  moved is the
\* environment: the number of files moved before mkdir or shutil.move
\* raises, Len(fs) when nothing raises
move_logs(fs, dir, moved) ==
    LET gone == {fs[i] : i \in 1..moved}
    IN [err |-> moved < Len(fs),
        dir |-> [n \in DOMAIN dir \ gone |-> dir[n]],
        archive |-> [n \in DOMAIN dir \cap gone |-> dir[n]]]

\* an archive step that hands move_logs the files that did not fail only
RunArchive_without_failed ==
    /\ pc = "archive"
    /\ \E kept \in {SelectSeq(files, LAMBDA f : f \notin SeqToSet(failed_files))} :
       \E moved \in 0..Len(kept) :
          LET mv == move_logs(kept, inputDir, moved)
          IN /\ inputDir' = mv.dir
             /\ archive' = mv.archive
             /\ archiveMade' = TRUE
             /\ pc' = IF mv.err THEN "raised" ELSE "done"
             /\ runlog' = runlog \o (IF mv.err THEN <<"archiving", "fatal">>
                                     ELSE <<"archiving", "archived", "summary">>)
    /\ UNCHANGED <<config, engine, inputExists, files, idx, processed_files,
                   processed_records, failed_files, cur, calls, detected>>

\* run, lines 89-98: archive the files and log the summary
RunArchive ==
    /\ pc = "archive"
    /\ \E moved \in 0..Len(files) :
          LET mv == move_logs(files, inputDir, moved)
          IN /\ inputDir' = mv.dir
             /\ archive' = mv.archive
             /\ archiveMade' = TRUE
             /\ pc' = IF mv.err THEN "raised" ELSE "done"
             /\ runlog' = runlog \o (IF mv.err THEN <<"archiving", "fatal">>
                                     ELSE <<"archiving", "archived", "summary">>)
    /\ UNCHANGED <<config, engine, inputExists, files, idx, processed_files,
                   processed_records, failed_files, cur, calls, detected>>

Next == RunExtract \/ RunProcessFile \/ RunArchive

Spec == Init /\ [][Next]_vars

(***************************************************************************)
(* File names: extract_wanted_files and detect_file_type on directories    *)
(* of empty files of any names of the universe.                            *)
(***************************************************************************)
InitNames ==
    /\ config \in [ENABLE_PICKLE : BOOLEAN, ENABLE_DB_INSERT : BOOLEAN, DRY_RUN : BOOLEAN]
    /\ engine = config.ENABLE_DB_INSERT
    /\ inputExists \in BOOLEAN
    /\ \E names \in SUBSET SeqToSet(NameUniverse) :
          inputDir = IF inputExists THEN [n \in names |-> <<>>] ELSE <<>>
    /\ archive = <<>>
    /\ archiveMade = FALSE
    /\ files = <<>>
    /\ pc = "start"
    /\ idx = 1
    /\ processed_files = 0
    /\ processed_records = 0
    /\ failed_files = <<>>
    /\ cur = NoCall
    /\ calls = <<>>
    /\ runlog = <<>>
    /\ detected = NoDetect

\* FileHandler.detect_file_type called on the path of a file of the directory
DetectFileType ==
    /\ \E n \in DOMAIN inputDir :
          LET det == detect_file_type(n)
          IN detected' = [name |-> n, err |-> det.err, type |-> det.type]
    /\ UNCHANGED <<config, engine, inputExists, inputDir, archive, archiveMade, files, pc,
                   idx, processed_files, processed_records, failed_files, cur, calls,
                   runlog>>

NextNames == RunExtract \/ DetectFileType

SpecNames == InitNames /\ [][NextNames]_vars

(***************************************************************************)
(* Properties.                                                             *)
(***************************************************************************)

\* C1: a file whose _process_file raises does not stop the run.  The calls of
\* _process_file made so far are the files in order, one call per file; once
\* the loop is over every file has had its call; failed_files is the failing
\* files in order; and the run raises only for a batch-level condition: the
\* extraction failing (input directory missing) before any call, or move_logs
\* failing after every file had its call.
C1_FailureDoesNotStopRun ==
    /\ Len(calls) = idx - 1
    /\ Len(calls) <= Len(files)
    /\ \A i \in 1..Len(calls) : calls[i].name = files[i]
    /\ pc \in {"archive", "done"} => Len(calls) = Len(files)
    /\ failed_files =
          LET failed == SelectSeq(calls, LAMBDA c : c.outcome = "failed")
          IN [i \in 1..Len(failed) |-> failed[i].name]
    /\ pc = "raised" =>
          \/ ~inputExists /\ calls = <<>> /\ runlog = <<"fatal">>
          \/ archiveMade /\ Len(calls) = Len(files) /\ DOMAIN archive # SeqToSet(files)

\* C1 witness: a run of two files ended normally, the first file failed and
\* the second was processed
C1_Witness ==
    /\ pc = "done"
    /\ Len(calls) = 2
    /\ calls[1].outcome = "failed"
    /\ calls[2].outcome = "ok"
    /\ failed_files = <<files[1]>>

\* C2 as stated: whatever the flags, the record set handed to a sink
\* (create_pickle or to_sql) has every field value within its declared
\* maximum length.
C2_EverySinkWithinLimits ==
    \A i \in 1..Len(cur.sinks) :
       \A r \in 1..Len(cur.sinks[i].data.rows) :
          \A l \in DOMAIN cur.sinks[i].data.rows[r] \cap DOMAIN column_limits :
             Len(cur.sinks[i].data.rows[r][l]) <= column_limits[l]

\* C2 amended: the record set handed to to_sql has every field value within
\* its declared maximum length, fix_column_size having run inside
\* insert_data; the record set handed to create_pickle is the enriched batch
\* as enrich_data returned it, before any truncation.
C2_ToSqlWithinLimits ==
    \A i \in 1..Len(cur.sinks) :
       LET call == cur.sinks[i]
       IN /\ call.sink = "to_sql" =>
                \A r \in 1..Len(call.data.rows) :
                   /\ DOMAIN call.data.rows[r] \subseteq DOMAIN column_limits
                   /\ \A l \in DOMAIN call.data.rows[r] :
                         Len(call.data.rows[r][l]) <= column_limits[l]
          /\ call.sink = "pickle" => call.data = cur.enriched

\* C2 witness: a batch holding a field longer than its maximum went to
\* create_pickle and then, truncated, to to_sql
C2_Witness ==
    /\ Len(cur.sinks) = 2
    /\ cur.sinks[1].sink = "pickle"
    /\ cur.sinks[2].sink = "to_sql"
    /\ \E r \in 1..Len(cur.enriched.rows) :
          /\ "TransactionTime" \in DOMAIN cur.enriched.rows[r]
          /\ Len(cur.sinks[1].data.rows[r]["TransactionTime"]) > column_limits["TransactionTime"]
          /\ Len(cur.sinks[2].data.rows[r]["TransactionTime"]) = column_limits["TransactionTime"]

\* C3 as stated: the records a file hands to a sink are never more than the
\* lines of the file, each line giving rise to at most one record, also in a
\* ValidationError file whose lines hold a '{' and are seen by the primary
\* parse and by the recovery pass.
C3_AtMostOneRecordPerLine ==
    /\ Len(cur.loaded.rows) <= Len(cur.lines)
    /\ \A i \in 1..Len(cur.sinks) : Len(cur.sinks[i].data.rows) <= Len(cur.lines)

\* C4: the recovery pass follows its arity rule.  Of the lines of a
\* ValidationError file that hold a '{', taken in order and split at the
\* tabs: a line of 10 fields gives a record whose fields 0..5 are the line's
\* and whose field 6 is the line's fields 6, 7, 8, 9 concatenated; a line of
\* 7 fields gives a record of its 7 fields unchanged; a line of any other
\* arity gives no record.  Every recovered record has exactly 7 fields.
C4_RecoveryArityRule ==
    LET marked == SelectSeq(cur.lines, LAMBDA l : Contains(l, LBRACE))
        fields(i) == SplitTab(RemoveTabCR(marked[i]))
        kept == SelectSeq([i \in 1..Len(marked) |-> i],
                          LAMBDA i : Len(fields(i)) \in {7, 10})
        rec == cur.recovered
        ran == /\ cur.type = VALIDATION_ERROR
               /\ cur.outcome # "failed" \/ cur.failedAt \notin {"detect", "load"}
               /\ \A k \in 1..Len(cur.log) : cur.log[k].text # "error_reading_erroneous_lines"
    IN ran =>
         /\ Len(rec.rows) = Len(kept)
         /\ \A j \in 1..Len(rec.rows) :
               LET f == fields(kept[j])
                   row == rec.rows[j]
               IN /\ DOMAIN row = SeqToSet(ExpectedColsError)
                  /\ Cardinality(DOMAIN row) = 7
                  /\ \A k \in 1..6 : row[ExpectedColsError[k]] = f[k]
                  /\ Len(f) = 7 => row[ExpectedColsError[7]] = f[7]
                  /\ Len(f) = 10 => row[ExpectedColsError[7]] = f[7] \o f[8] \o f[9] \o f[10]

\* C4 witness: of a 10-field line and a 3-field line, both holding '{', the
\* recovery pass made one record, with the four fragments joined
C4_Witness ==
    /\ cur.lines = <<LineErr10, LineShort3>>
    /\ Len(cur.recovered.rows) = 1
    /\ cur.recovered.rows[1]["Status"] = FJson1 \o FJson2 \o FJson3
    /\ cur.recovered.rows[1]["ErrorCode"] = FCode

\* C5: in every enriched record, and in every record handed to a sink, Date
\* is the first 10 characters of the record's TransactionTime (the whole of
\* it when it is shorter), and Date is empty when TransactionTime is empty or
\* the record set has no TransactionTime.
C5_DateIsTimePrefix ==
    LET ok(df) ==
          \A r \in 1..Len(df.rows) :
             LET row == df.rows[r]
             IN /\ "Date" \in DOMAIN row
                /\ IF "TransactionTime" \in DOMAIN row
                   THEN /\ row["Date"] = SubSeq(row["TransactionTime"], 1,
                                                Min(10, Len(row["TransactionTime"])))
                        /\ row["TransactionTime"] = <<>> => row["Date"] = <<>>
                   ELSE row["Date"] = <<>>
    IN /\ ok(cur.enriched)
       /\ \A i \in 1..Len(cur.sinks) : ok(cur.sinks[i].data)

\* C5 witness: a record went to to_sql with its TransactionTime cut to 21
\* characters and a Date of 10 characters, and a record set without
\* TransactionTime is not what the state holds
C5_Witness ==
    /\ cur.outcome = "ok"
    /\ \E i \in 1..Len(cur.sinks) :
          /\ cur.sinks[i].sink = "to_sql"
          /\ \E r \in 1..Len(cur.sinks[i].data.rows) :
                /\ "TransactionTime" \in DOMAIN cur.sinks[i].data.rows[r]
                /\ Len(cur.sinks[i].data.rows[r]["TransactionTime"]) = 21
                /\ Len(cur.sinks[i].data.rows[r]["Date"]) = 10
                /\ Len(cur.enriched.rows[r]["TransactionTime"]) > 21

\* C6: with DRY_RUN set, insert_data is never invoked (no batch goes to
\* to_sql and no file fails at the insert), while the rest of the pipeline
\* runs: a file that _process_file carried through was loaded, cleaned and
\* enriched, went to create_pickle exactly when ENABLE_PICKLE is set, has the
\* intended-insert message with its record count in the log, and is counted
\* in processed_files and processed_records; and a run that ends normally
\* has moved every file it found to the archive.
C6_DryRunSuppressesOnlyInsert ==
    config.DRY_RUN =>
      /\ \A i \in 1..Len(cur.sinks) : cur.sinks[i].sink # "to_sql"
      /\ cur.failedAt # "insert"
      /\ cur.outcome = "ok" =>
            /\ cur.loaded.rows # <<>>
            /\ Len(cur.cleaned.rows) = Len(cur.enriched.rows)
            /\ cur.enriched.rows # <<>>
            /\ cur.sinks = IF config.ENABLE_PICKLE
                           THEN <<[sink |-> "pickle", data |-> cur.enriched, ok |-> TRUE]>>
                           ELSE <<>>
            /\ \E k \in 1..Len(cur.log) :
                  /\ cur.log[k].text = "dry_run_would_insert"
                  /\ cur.log[k].n = Len(cur.enriched.rows)
            /\ cur.count = Len(cur.enriched.rows)
            /\ calls # <<>> /\ calls[Len(calls)].outcome = "ok"
      /\ processed_files = Len(SelectSeq(calls, LAMBDA c : c.outcome = "ok"))
      /\ LET sum[i \in 0..Len(calls)] ==
                 IF i = 0 THEN 0
                 ELSE sum[i - 1] + (IF calls[i].outcome = "ok" THEN calls[i].count ELSE 0)
         IN processed_records = sum[Len(calls)]
      /\ pc = "done" /\ files # <<>> =>
            /\ DOMAIN archive = SeqToSet(files)
            /\ DOMAIN inputDir \cap SeqToSet(files) = {}

\* C6 witness: a dry run with the pickle and the insert enabled ended
\* normally, its last file carried through and pickled
C6_Witness ==
    /\ config.DRY_RUN /\ config.ENABLE_DB_INSERT /\ config.ENABLE_PICKLE
    /\ pc = "done"
    /\ cur.outcome = "ok"
    /\ Len(cur.sinks) = 1
    /\ processed_records > 0

\* C7 as stated: a file with no parseable line (an empty file among them)
\* that is readable loads as an empty record set instead of failing:
\* _process_file hands nothing to a sink, the file is not in failed_files,
\* and a run that ends normally has moved the file to the archive.
C7_EmptyFileSkipped ==
    LET noLine == \A i \in 1..Len(cur.lines) : Strip(cur.lines[i]) = <<>>
    IN cur.outcome # "none" /\ cur.fault = "none" /\ noLine =>
          /\ cur.outcome = "skipped"
          /\ cur.sinks = <<>>
          /\ cur.name \notin SeqToSet(failed_files)
          /\ pc = "done" => cur.name \in DOMAIN archive

\* C8 as stated: every record handed to a sink holds every canonical field
\* of its schema (10 for ValidationOk, 11 for ValidationError), each with a
\* string value; the trailing fields that a file of fewer columns lacks are
\* there with the empty string.
C8_EveryCanonicalFieldPresent ==
    \A i \in 1..Len(cur.sinks) :
       LET order == IF cur.type = VALIDATION_OK THEN ColumnOrderOk ELSE ColumnOrderError
           df == cur.sinks[i].data
       IN /\ SeqToSet(df.cols) = SeqToSet(order)
          /\ \A r \in 1..Len(df.rows) :
                /\ DOMAIN df.rows[r] = SeqToSet(order)
                /\ \A l \in DOMAIN df.rows[r] : df.rows[r][l] # NaN

\* C8 amended: every record handed to a sink holds canonical fields of its
\* schema only, each with a string value; Date, FileName, Type and
\* ProcessedAt are always there, and a raw canonical field is there exactly
\* when the loaded frame has a column of that name: the trailing fields that
\* a file of fewer columns lacks are absent from the record.
C8_OnlyLoadedCanonicalFields ==
    \A i \in 1..Len(cur.sinks) :
       LET order == IF cur.type = VALIDATION_OK THEN ColumnOrderOk ELSE ColumnOrderError
           raw == IF cur.type = VALIDATION_OK THEN ExpectedColsOk ELSE ExpectedColsError
           df == cur.sinks[i].data
           fields == (SeqToSet(raw) \cap SeqToSet(cur.loaded.cols))
                        \cup {"Date", "FileName", "Type", "ProcessedAt"}
       IN /\ SeqToSet(df.cols) = fields
          /\ fields \subseteq SeqToSet(order)
          /\ \A r \in 1..Len(df.rows) :
                /\ DOMAIN df.rows[r] = fields
                /\ \A l \in fields : df.rows[r][l] # NaN /\ df.rows[r][l] \in Seq(STRING)

\* C8 witness: a ValidationOk file of 3-field lines went to a sink as
\* records without NationalCode, TransactionTime and Status, and with an
\* empty Date
C8_Witness ==
    /\ cur.type = VALIDATION_OK
    /\ cur.lines # <<>>
    /\ \A i \in 1..Len(cur.lines) : cur.lines[i] = LineShort3
    /\ cur.sinks # <<>>
    /\ SeqToSet(cur.sinks[1].data.cols) =
          {"BankName", "AccountNumber", "ShebaNumber", "Date", "FileName", "Type", "ProcessedAt"}
    /\ cur.sinks[1].data.rows[1]["Date"] = <<>>

\* C9 as stated: make_data_clean drops a row whose every canonical field is
\* empty or null after the prefix is stripped and the value trimmed: no such
\* row is in the cleaned frame, and the cleaned frame has fewer rows than the
\* loaded frame whenever the loaded frame holds such a row.
C9_EmptyRowsDropped ==
    LET blank(v) == v = NaN \/ Strip(StripPrefix(v)) = <<>>
        emptyIn(row) == \A l \in DOMAIN row \cap CanonicalRaw : blank(row[l])
        cleanRan == cur.outcome = "ok" \/ cur.failedAt \in {"enrich", "pickle", "insert"}
    IN cleanRan =>
         /\ \A r \in 1..Len(cur.cleaned.rows) :
               \E l \in DOMAIN cur.cleaned.rows[r] \cap CanonicalRaw :
                  cur.cleaned.rows[r][l] # <<>>
         /\ (\E r \in 1..Len(cur.loaded.rows) : emptyIn(cur.loaded.rows[r])) =>
               Len(cur.cleaned.rows) < Len(cur.loaded.rows)

\* C10 as stated: after make_data_clean a canonical field that was null in
\* the loaded frame is the empty string in the record that is kept; no kept
\* record holds a null or the text 'nan' for it, and no record handed to a
\* sink does.
C10_NullBecomesEmptyString ==
    LET cleanRan == cur.outcome = "ok" \/ cur.failedAt \in {"enrich", "pickle", "insert"}
        noNull(df) == \A r \in 1..Len(df.rows) :
                         \A l \in DOMAIN df.rows[r] \cap CanonicalRaw :
                            df.rows[r][l] \notin {NaN, NanText}
    IN cleanRan =>
         /\ noNull(cur.cleaned)
         /\ \A i \in 1..Len(cur.sinks) : noNull(cur.sinks[i].data)
         /\ Len(cur.cleaned.rows) = Len(cur.loaded.rows) =>
               \A r \in 1..Len(cur.loaded.rows) :
                  \A l \in DOMAIN cur.loaded.rows[r] \cap CanonicalRaw :
                     cur.loaded.rows[r][l] = NaN => cur.cleaned.rows[r][l] = <<>>

\* C11: fix_column_size keeps exactly the first N characters of a value
\* longer than its field's limit N, leaves a value of at most N characters
\* as it is, and is idempotent.  The batch that to_sql gets is
\* fix_column_size of the enriched batch: it has the same columns and rows,
\* each value is the enriched value or its first N characters, and
\* fix_column_size applied to it once more gives it back.
C11_TruncationExactAndIdempotent ==
    \A i \in 1..Len(cur.sinks) :
       cur.sinks[i].sink = "to_sql" =>
          LET fixed == cur.sinks[i].data
              src == cur.enriched
          IN /\ fixed.cols = src.cols
             /\ Len(fixed.rows) = Len(src.rows)
             /\ \A r \in 1..Len(src.rows) :
                   /\ DOMAIN fixed.rows[r] = DOMAIN src.rows[r]
                   /\ \A l \in DOMAIN src.rows[r] :
                         LET v == src.rows[r][l]
                             N == column_limits[l]
                         IN IF Len(v) > N
                            THEN /\ Len(fixed.rows[r][l]) = N
                                 /\ \A k \in 1..N : fixed.rows[r][l][k] = v[k]
                            ELSE fixed.rows[r][l] = v
             /\ fix_column_size(fixed) = fixed

\* C11 witness: to_sql got a record whose ErrorCode was cut to its 10
\* characters and whose BankName was left as it was
C11_Witness ==
    \E i \in 1..Len(cur.sinks) :
       /\ cur.sinks[i].sink = "to_sql"
       /\ \E r \in 1..Len(cur.enriched.rows) :
             /\ "ErrorCode" \in DOMAIN cur.enriched.rows[r]
             /\ Len(cur.enriched.rows[r]["ErrorCode"]) = 11
             /\ cur.sinks[i].data.rows[r]["ErrorCode"] = Rep("9", 10)
             /\ cur.sinks[i].data.rows[r]["BankName"] = cur.enriched.rows[r]["BankName"]

\* C12 as stated: detect_file_type returns a tag, ValidationError or
\* ValidationOk and nothing else, exactly when the file name is one of the
\* tags, digits and ".txt", and fails otherwise; and once
\* extract_wanted_files has run, a file of the directory is selected exactly
\* when detect_file_type classifies its name.
C12_SelectedIffClassified ==
    LET full(t, tag) ==
           /\ Len(t) >= Len(tag) + Len(DotTxt)
           /\ SubSeq(t, 1, Len(tag)) = tag
           /\ SubSeq(t, Len(t) - Len(DotTxt) + 1, Len(t)) = DotTxt
           /\ \A k \in (Len(tag) + 1)..(Len(t) - Len(DotTxt)) : t[k] \in Digits
    IN detected.name # <<>> =>
         /\ ~detected.err => detected.type \in VALID_TYPES
         /\ ~detected.err <=> \E tag \in VALID_TYPES : full(detected.name, tag)
         /\ pc # "start" => (detected.name \in SeqToSet(files) <=> ~detected.err)

\* C12 amended: detect_file_type returns a tag, ValidationError or
\* ValidationOk and nothing else, exactly when the file name holds somewhere
\* a tag followed by digits and ".txt", the tag of the leftmost such
\* occurrence, and fails otherwise; extract_wanted_files selects exactly the
\* files whose name begins with such an occurrence; so every selected file
\* is classified, while a name that holds the occurrence after other text is
\* classified without being selected.
C12_SelectedImpliesClassified ==
    LET full(t, tag) ==
           /\ Len(t) >= Len(tag) + Len(DotTxt)
           /\ SubSeq(t, 1, Len(tag)) = tag
           /\ SubSeq(t, Len(t) - Len(DotTxt) + 1, Len(t)) = DotTxt
           /\ \A k \in (Len(tag) + 1)..(Len(t) - Len(DotTxt)) : t[k] \in Digits
        occursAt(n, i, tag) == \E j \in i..Len(n) : full(SubSeq(n, i, j), tag)
        n == detected.name
    IN n # <<>> =>
         /\ ~detected.err => detected.type \in VALID_TYPES
         /\ ~detected.err <=> \E i \in 1..Len(n) : \E tag \in VALID_TYPES : occursAt(n, i, tag)
         /\ ~detected.err =>
               \E i \in 1..Len(n) :
                  /\ occursAt(n, i, detected.type)
                  /\ \A h \in 1..(i - 1) : \A tag \in VALID_TYPES : ~occursAt(n, h, tag)
         /\ pc # "start" =>
               /\ n \in SeqToSet(files) <=> \E tag \in VALID_TYPES : occursAt(n, 1, tag)
               /\ n \in SeqToSet(files) => ~detected.err

\* C12 witness: the files were selected, the name with text after ".txt"
\* among them and the name with text before the tag not, and
\* detect_file_type classified the latter
C12_Witness ==
    /\ pc = "loop"
    /\ NameOkBak \in SeqToSet(files)
    /\ NamePrefixed \in DOMAIN inputDir
    /\ NamePrefixed \notin SeqToSet(files)
    /\ detected = [name |-> NamePrefixed, err |-> FALSE, type |-> VALIDATION_OK]

\* C13 as stated: in a ValidationOk file, every well-formed line of 6 or
\* more tab-separated fields, wherever it stands and whatever the field
\* counts of the other lines, gives exactly one output record whose
\* BankName..Status are the line's first 6 fields, prefix-stripped and
\* trimmed: the enriched records with these six values are as many as the
\* lines with them.
C13_EveryWideLineYieldsRecord ==
    LET fields(i) == ParseLine(cur.lines[i])
        wide(i) == /\ Len(fields(i)) >= 6
                   /\ \A k \in 1..6 : fields(i)[k] # <<>>
        six(i) == [k \in 1..6 |-> CleanCell(fields(i)[k])]
        rowSix(row) == [k \in 1..6 |-> row[ExpectedColsOk[k]]]
        matches(i) == {r \in 1..Len(cur.enriched.rows) :
                         /\ SeqToSet(ExpectedColsOk) \subseteq DOMAIN cur.enriched.rows[r]
                         /\ rowSix(cur.enriched.rows[r]) = six(i)}
        same(i) == {j \in 1..Len(cur.lines) : wide(j) /\ six(j) = six(i)}
    IN cur.type = VALIDATION_OK /\ cur.fault = "none" /\ cur.outcome # "none" =>
          \A i \in 1..Len(cur.lines) :
             wide(i) => Cardinality(matches(i)) = Cardinality(same(i))

C15_SplitsFromFirstBrace ==
    LET marked == SelectSeq(cur.lines, LAMBDA l : Contains(l, LBRACE))
        text(i) == RemoveTabCR(SubSeq(marked[i], FirstIndex(marked[i], LBRACE),
                                      Len(marked[i])))
        ran == /\ cur.type = VALIDATION_ERROR
               /\ cur.fault = "none"
               /\ cur.outcome # "none"
    IN ran =>
         cur.recovered =
            rename_columns(
               FrameOfLists(Flatten([i \in 1..Len(marked) |-> CorrectLine(SplitTab(text(i)))])),
               VALIDATION_ERROR)

\* C15 amended: for every line of a ValidationError file that holds a '{',
\* the text the recovery pass splits at the tabs is the whole line, from its
\* first character to its end, with every tab-CR pair removed; the characters
\* before the first '{' are kept and make the leading fields of the recovered
\* record (its BankName is the line up to its first tab); lines without '{'
\* are not selected.
C15_SplitsWholeLine ==
    LET marked == SelectSeq(cur.lines, LAMBDA l : Contains(l, LBRACE))
        text(i) == RemoveTabCR(marked[i])
        kept == SelectSeq([i \in 1..Len(marked) |-> i],
                          LAMBDA i : Len(SplitTab(text(i))) \in {7, 10})
        ran == /\ cur.type = VALIDATION_ERROR
               /\ cur.fault = "none"
               /\ cur.outcome # "none"
    IN ran =>
         /\ cur.recovered =
               rename_columns(
                  FrameOfLists(Flatten([i \in 1..Len(marked) |-> CorrectLine(SplitTab(text(i)))])),
                  VALIDATION_ERROR)
         /\ Len(cur.recovered.rows) = Len(kept)
         /\ \A j \in 1..Len(kept) :
               LET line == marked[kept[j]]
               IN /\ FirstIndex(line, TAB) < FirstIndex(line, LBRACE)
                  /\ cur.recovered.rows[j]["BankName"] = Take(line, FirstIndex(line, TAB) - 1)

\* C15 witness: of a 7-field line ending in tab-CR and a line without '{',
\* the recovery pass made one record; it holds the fields before the '{' and
\* a Status without the tab-CR
C15_Witness ==
    /\ cur.lines = <<LineErr7Json, LineOk6>>
    /\ cur.fault = "none"
    /\ Len(cur.recovered.rows) = 1
    /\ cur.recovered.rows[1]["BankName"] = FBank
    /\ cur.recovered.rows[1]["Status"] = FStatusJson

\* C16: what load_text_files returns for a ValidationError file is every
\* record of the primary parse, in its order and with its values as they
\* were (a field only the recovered records have is null in it), followed by
\* the recovered records in their order: the recovery pass appends, it
\* replaces and removes nothing.  For a ValidationOk file the recovery pass
\* does not run, also when lines hold a '{', and what is returned is the
\* record set of the primary parse.
C16_RecoveryAppends ==
    LET p == cur.primary
        rec == cur.recovered
        l == cur.loaded
        np == Len(p.rows)
    IN /\ Len(l.rows) = np + Len(rec.rows)
       /\ SubSeq(l.cols, 1, Len(p.cols)) = p.cols
       /\ \A r \in 1..np :
             /\ DOMAIN p.rows[r] \subseteq DOMAIN l.rows[r]
             /\ \A c \in DOMAIN l.rows[r] :
                   l.rows[r][c] = IF c \in DOMAIN p.rows[r] THEN p.rows[r][c] ELSE NaN
       /\ \A r \in 1..Len(rec.rows) :
             /\ DOMAIN rec.rows[r] \subseteq DOMAIN l.rows[np + r]
             /\ \A c \in DOMAIN l.rows[np + r] :
                   l.rows[np + r][c] = IF c \in DOMAIN rec.rows[r] THEN rec.rows[r][c] ELSE NaN
       /\ cur.type = VALIDATION_OK =>
             /\ rec = EmptyDF
             /\ l = p
             /\ \A k \in 1..Len(cur.log) : cur.log[k].text # "error_reading_erroneous_lines"

\* C16 witness: a ValidationError file of a 6-field line and a 7-field line
\* with a JSON status loaded as the record of the primary parse, its Status
\* null, followed by the recovered record
C16_Witness ==
    /\ cur.type = VALIDATION_ERROR
    /\ cur.lines = <<LineOk6, LineErr7Json>>
    /\ Len(cur.primary.rows) = 1
    /\ Len(cur.recovered.rows) = 1
    /\ Len(cur.loaded.rows) = 2
    /\ cur.loaded.rows[1]["BankName"] = FBank
    /\ cur.loaded.rows[1]["Status"] = NaN
    /\ cur.loaded.rows[2]["Status"] = FStatusJson

\* C17: the recovery pass never lets an exception through.  Whatever a
\* ValidationError file holds (lines with '{' of an arity that is neither 7
\* nor 10 among them), and also when opening or reading the file fails inside
\* the recovery pass, load_text_files fails only when the primary parse
\* fails, and otherwise returns the record set of the primary parse, alone
\* when nothing was recovered; and the warning of the recovery pass is in
\* the log only when it recovered no record.
C17_RecoveryNeverRaises ==
    LET parsed == read_csv(cur.lines)
        warned == \E k \in 1..Len(cur.log) : cur.log[k].text = "error_reading_erroneous_lines"
    IN cur.type = VALIDATION_ERROR /\ cur.fault \in {"none", "recovery"} =>
          /\ cur.failedAt = "load" <=> parsed.err
          /\ ~parsed.err =>
                /\ cur.primary = rename_columns(DropAllNaNColumns(parsed.df), VALIDATION_ERROR)
                /\ cur.primary.rows # <<>>
                /\ SubSeq(cur.loaded.rows, 1, Len(cur.primary.rows))
                      = [r \in 1..Len(cur.primary.rows) |->
                            [c \in DOMAIN cur.loaded.rows[r] |->
                                IF c \in DOMAIN cur.primary.rows[r]
                                THEN cur.primary.rows[r][c] ELSE NaN]]
                /\ cur.recovered.rows = <<>> => cur.loaded = cur.primary
                /\ cur.fault = "recovery" => warned /\ cur.recovered = EmptyDF
          /\ warned => cur.recovered.rows = <<>>

\* C17 witness: reading failed inside the recovery pass of a ValidationError
\* file whose line it would have recovered; the warning is in the log, nothing
\* was recovered, and the file was carried through with the record of the
\* primary parse
C17_Witness ==
    /\ cur.type = VALIDATION_ERROR
    /\ cur.fault = "recovery"
    /\ cur.lines = <<LineErr7Json>>
    /\ cur.outcome = "ok"
    /\ cur.recovered = EmptyDF
    /\ Len(cur.loaded.rows) = 1
    /\ cur.log[1].text = "error_reading_erroneous_lines"

\* C18: make_data_clean maps every text value v of every canonical field,
\* whichever field it is, to the trimmed part of v after its first ':' when v
\* holds a ':', and to the trimmed v otherwise: what goes is the prefix
\* through the first colon only, later colons stay.
C18_PrefixThroughFirstColon ==
    LET cleanedThere == cur.outcome = "ok" \/ cur.failedAt \in {"enrich", "pickle", "insert"}
        expected(v) ==
            IF \E i \in 1..Len(v) : v[i] = COLON
            THEN LET i == CHOOSE k \in 1..Len(v) :
                             v[k] = COLON /\ \A j \in 1..(k - 1) : v[j] # COLON
                 IN Strip(SubSeq(v, i + 1, Len(v)))
            ELSE Strip(v)
    IN cleanedThere =>
          /\ Len(cur.cleaned.rows) = Len(cur.loaded.rows)
          /\ \A r \in 1..Len(cur.loaded.rows) :
                /\ DOMAIN cur.cleaned.rows[r] = DOMAIN cur.loaded.rows[r]
                /\ \A c \in DOMAIN cur.loaded.rows[r] \cap CanonicalRaw :
                      cur.loaded.rows[r][c] # NaN =>
                         cur.cleaned.rows[r][c] = expected(cur.loaded.rows[r][c])

\* C18 witness: of a 3-field line and a 7-field line of a ValidationError
\* file, the value " 7" without a colon was trimmed to "7", the labelled
\* "St:{c}" became "{c}", and the long TransactionTime lost its label and
\* kept its later colons
C18_Witness ==
    /\ cur.type = VALIDATION_ERROR
    /\ cur.lines = <<LineShort3, LineErr7Json>>
    /\ cur.outcome = "ok"
    /\ Len(cur.cleaned.rows) = 2
    /\ cur.loaded.rows[1]["AccountNumber"] = FPlain
    /\ cur.cleaned.rows[1]["AccountNumber"] = <<"7">>
    /\ cur.cleaned.rows[1]["ShebaNumber"] = <<"{", "c", "}">>
    /\ cur.cleaned.rows[2]["BankName"] = <<"M">>
    /\ cur.cleaned.rows[2]["TransactionTime"] = Drop(FTimeLong, 2)
    /\ Contains(cur.cleaned.rows[2]["TransactionTime"], COLON)

\* C19 as stated: after the columns that are empty on every line are
\* dropped, the primary parse names the remaining columns by position: the
\* k-th remaining column, k up to the raw arity of the schema (6 or 7), has
\* the k-th canonical raw name, so that none of the first 6 (or 7) remaining
\* columns is without a canonical name, whichever column was the empty one.
C19_NamedByPosition ==
    LET expected == IF cur.type = VALIDATION_OK THEN ExpectedColsOk ELSE ExpectedColsError
        cols == cur.primary.cols
    IN cur.type \in VALID_TYPES =>
          \A k \in 1..Min(Len(expected), Len(cols)) :
             /\ cols[k] = expected[k]
             /\ cols[k] \in CanonicalRaw

\* C20: the fields of every record enrich_data returns are, in this order,
\* fields of the canonical order of the file's schema and nothing else:
\* BankName, AccountNumber, ShebaNumber, NationalCode, Date, TransactionTime,
\* Status, FileName, Type, ProcessedAt for ValidationOk, the same with
\* ErrorCode before Status for ValidationError.  ErrorCode is in no
\* ValidationOk record, and the positional columns beyond the schema's arity
\* that the loaded frame holds are dropped without a failure of enrich_data.
C20_CanonicalOrderOnly ==
    LET order == IF cur.type = VALIDATION_OK THEN ColumnOrderOk ELSE ColumnOrderError
        en == cur.enriched
        present == SeqToSet(en.cols)
        reached == cur.outcome = "ok" \/ cur.failedAt \in {"pickle", "insert"}
    IN /\ en.cols = SelectSeq(order, LAMBDA c : c \in present)
       /\ \A r \in 1..Len(en.rows) : DOMAIN en.rows[r] = present
       /\ cur.type = VALIDATION_OK => "ErrorCode" \notin present
       /\ \A c \in present : ~IsIntLabel(c)
       /\ cur.fault = "none" /\ cur.cleaned.rows # <<>> =>
             /\ reached
             /\ Len(en.rows) = Len(cur.cleaned.rows)

\* C20 witness: a ValidationOk file of a 10-field line loaded with positional
\* columns beyond the 6 named ones, and its enriched record holds the 10
\* canonical fields of ValidationOk, in order, and nothing else
C20_Witness ==
    /\ cur.type = VALIDATION_OK
    /\ cur.lines = <<LineErr10>>
    /\ cur.outcome = "ok"
    /\ Len(cur.cleaned.cols) > 6
    /\ \E i \in 1..Len(cur.cleaned.cols) : IsIntLabel(cur.cleaned.cols[i])
    /\ cur.enriched.cols = ColumnOrderOk
    /\ Len(cur.enriched.rows) = 1

\* C21: every file run has called _process_file on has exactly one outcome.
\* It was carried through every step, the enabled sinks among them, and
\* counted in processed_files; or a step raised and it is in failed_files,
\* once; or it was empty after loading, went to no sink, and is counted in
\* neither.  processed_files is the number of files carried through,
\* processed_files + |failed_files| is never more than the number of
\* selected files, and processed_records is the sum of the record counts of
\* the files counted in processed_files.
C21_ExactlyOneOutcome ==
    LET ok == SelectSeq(calls, LAMBDA c : c.outcome = "ok")
        failed == SelectSeq(calls, LAMBDA c : c.outcome = "failed")
        skipped == SelectSeq(calls, LAMBDA c : c.outcome = "skipped")
        sum[i \in 0..Len(calls)] ==
            IF i = 0 THEN 0
            ELSE sum[i - 1] + (IF calls[i].outcome = "ok" THEN calls[i].count ELSE 0)
        wanted == (IF config.ENABLE_PICKLE THEN <<"pickle">> ELSE <<>>)
                  \o (IF config.ENABLE_DB_INSERT /\ ~config.DRY_RUN THEN <<"to_sql">> ELSE <<>>)
    IN /\ Len(ok) + Len(failed) + Len(skipped) = Len(calls)
       /\ processed_files = Len(ok)
       /\ Len(failed_files) = Len(failed)
       /\ \A i \in 1..Len(calls) :
             /\ calls[i].name = files[i]
             /\ \A j \in 1..Len(calls) : calls[j].name = calls[i].name => j = i
             /\ calls[i].outcome = "failed" <=> calls[i].name \in SeqToSet(failed_files)
             /\ calls[i].outcome # "ok" => calls[i].count = 0
       /\ \A i, j \in 1..Len(failed_files) : failed_files[i] = failed_files[j] => i = j
       /\ processed_files + Len(failed_files) <= Len(files)
       /\ processed_records = sum[Len(calls)]
       /\ cur.outcome = "ok" =>
             /\ cur.failedAt = "none"
             /\ [i \in 1..Len(cur.sinks) |-> cur.sinks[i].sink] = wanted
             /\ \A i \in 1..Len(cur.sinks) : cur.sinks[i].ok
             /\ cur.count = Len(cur.enriched.rows)
       /\ cur.outcome = "skipped" => IsEmptyDF(cur.loaded) /\ cur.sinks = <<>>
       /\ cur.outcome = "failed" => cur.failedAt # "none"

\* C21 witness: a run of two files is over; the first file was skipped as
\* empty and is counted nowhere, the second failed and is in failed_files
C21_Witness ==
    /\ pc = "done"
    /\ Len(calls) = 2
    /\ calls[1].outcome = "skipped"
    /\ calls[2].outcome = "failed"
    /\ processed_files = 0
    /\ processed_records = 0
    /\ failed_files = <<files[2]>>

\* C22: within the pipeline of one file the pickle is written before the
\* insert, and the two sinks are not atomic.  With both sinks enabled: when
\* create_pickle raises, nothing is handed to to_sql for that file; when
\* insert_data raises, the pickle of that file has been written already, with
\* the enriched batch.  A file whose insert raised is in failed_files and not
\* counted as processed, and the insert is tried once per file at most.
C22_PickleBeforeInsert ==
    LET sinkAt(i) == cur.sinks[i].sink
        inserts == {i \in 1..Len(cur.sinks) : sinkAt(i) = "to_sql"}
        pickles == {i \in 1..Len(cur.sinks) : sinkAt(i) = "pickle"}
    IN /\ \A i \in pickles : \A j \in inserts : i < j
       /\ Cardinality(inserts) <= 1
       /\ Cardinality(pickles) <= 1
       /\ cur.failedAt = "pickle" =>
             /\ inserts = {}
             /\ cur.outcome = "failed"
       /\ cur.failedAt = "insert" =>
             /\ config.ENABLE_PICKLE =>
                   /\ Len(cur.sinks) = 2
                   /\ cur.sinks[1] = SinkCall("pickle", cur.enriched, TRUE)
             /\ Cardinality(inserts) = 1
             /\ \A j \in inserts : ~cur.sinks[j].ok
             /\ cur.outcome = "failed"
             /\ cur.count = 0
             /\ calls # <<>>
             /\ calls[Len(calls)] = [name |-> cur.name, outcome |-> "failed", count |-> 0]
             /\ failed_files # <<>>
             /\ failed_files[Len(failed_files)] = cur.name
             /\ processed_files = Len(SelectSeq(calls, LAMBDA c : c.outcome = "ok"))

\* C22 witness: with both sinks enabled the insert of a file raised after its
\* pickle was written; the file is in failed_files and nothing was counted
C22_Witness ==
    /\ config.ENABLE_PICKLE /\ config.ENABLE_DB_INSERT /\ ~config.DRY_RUN
    /\ cur.failedAt = "insert"
    /\ Len(cur.sinks) = 2
    /\ cur.sinks[1].sink = "pickle" /\ cur.sinks[1].ok
    /\ cur.sinks[2].sink = "to_sql" /\ ~cur.sinks[2].ok
    /\ Len(calls) = 1
    /\ failed_files = <<cur.name>>
    /\ processed_files = 0
    /\ processed_records = 0

\* C23: run invokes move_logs once at most, after the last selected file was
\* processed, skipped or failed, and with all the selected files: as long as
\* a file is still to be processed nothing is moved; after a move_logs that
\* did not raise every selected file, the failed ones too, is in the archive
\* subdirectory and none is left in the input directory, and the summary is
\* logged; and when no file is selected no archive directory is made and no
\* summary is logged.
C23_MoveLogsOnceAtTheEnd ==
    LET count(tag) == Len(SelectSeq(runlog, LAMBDA t : t = tag))
    IN /\ count("archiving") <= 1
       /\ archiveMade <=> count("archiving") = 1
       /\ archiveMade =>
             /\ pc \in {"done", "raised"}
             /\ files # <<>>
             /\ Len(calls) = Len(files)
             /\ DOMAIN archive \subseteq SeqToSet(files)
       /\ ~archiveMade => archive = <<>> /\ count("summary") = 0
       /\ pc \in {"start", "loop", "archive"} => ~archiveMade
       /\ pc = "done" /\ files # <<>> =>
             /\ archiveMade
             /\ DOMAIN archive = SeqToSet(files)
             /\ SeqToSet(failed_files) \subseteq DOMAIN archive
             /\ DOMAIN inputDir \cap SeqToSet(files) = {}
             /\ count("summary") = 1
       /\ pc = "done" /\ files = <<>> =>
             /\ ~archiveMade
             /\ runlog = <<"found", "no_files">>

\* C23 witness: a run of two files ended normally; the first file failed, the
\* second was processed, and both are in the archive
C23_Witness ==
    /\ pc = "done"
    /\ archiveMade
    /\ Len(files) = 2
    /\ failed_files = <<files[1]>>
    /\ processed_files = 1
    /\ DOMAIN archive = {files[1], files[2]}
    /\ runlog = <<"found", "archiving", "archived", "summary">>

====
